---------------------------- MODULE Spec2Model ----------------------------
(***************************************************************************)
(* Model of src/main.py: the FolderSelector widget (the shell), the price  *)
(* estimator calculate_estimated_price and the folder accountant           *)
(* process_md_files_in_folder with the report it writes.                   *)
(*                                                                         *)
(* Text is a sequence of one-character strings, so that endswith, ljust,   *)
(* "{:.6f}".format, str() and float() are computed and not assumed.        *)
(* A Python float holding a price is a fixed-point integer in units of     *)
(* 10^-8 dollar: (token_count / 1000) * rate is exactly token_count *      *)
(* (rate * 10^5) such units, and every value the program parses back with  *)
(* float() is a multiple of 10^-6.  The binary rounding error of a double  *)
(* (about 10^-16 relative) only decides the direction of "{:.6f}" when the *)
(* exact product lies half-way between two 6-decimal values, so formatting *)
(* is a relation: at an exact tie either neighbour can be produced.        *)
(***************************************************************************)
EXTENDS Integers, Sequences, FiniteSets, TLC

(***************************************************************************)
(* Bounds                                                                  *)
(***************************************************************************)
MaxEntries == 2
MaxTokens == 50
MaxChars == 40
MaxPresses == 2
MaxPriceTokens == 120

(***************************************************************************)
(* Text                                                                    *)
(***************************************************************************)
None == <<>>

Some(x) == <<x>>

DigitChars == <<"0", "1", "2", "3", "4", "5", "6", "7", "8", "9">>

RECURSIVE str(_)
str(n) ==
    IF n < 10 THEN <<DigitChars[n + 1]>>
    ELSE str(n \div 10) \o <<DigitChars[(n % 10) + 1]>>

DigitVal(c) == CHOOSE d \in 0..9 : DigitChars[d + 1] = c

RECURSIVE int(_)
int(s) ==
    IF s = <<>> THEN 0
    ELSE int(SubSeq(s, 1, Len(s) - 1)) * 10 + DigitVal(s[Len(s)])

RECURSIVE Pow10(_)
Pow10(k) == IF k = 0 THEN 1 ELSE 10 * Pow10(k - 1)

endswith(s, suffix) ==
    /\ Len(s) >= Len(suffix)
    /\ SubSeq(s, Len(s) - Len(suffix) + 1, Len(s)) = suffix

ljust(s, width, fillchar) ==
    IF Len(s) >= width THEN s
    ELSE s \o [i \in 1..(width - Len(s)) |-> fillchar]

rjust(s, width, fillchar) ==
    IF Len(s) >= width THEN s
    ELSE [i \in 1..(width - Len(s)) |-> fillchar] \o s

\* variant: the digits after the sixth are cut off
MutNearest6_floor(x) == {x \div 100}

\* the 6-decimal values nearest to x (x in units of 10^-8), in units of 10^-6
Nearest6(x) ==
    LET q == x \div 100
        r == x % 100
    IN  IF 2 * r < 100 THEN {q}
        ELSE IF 2 * r > 100 THEN {q + 1}
        ELSE {q, q + 1}

\* "%d.%06d" of a value in units of 10^-6
Fixed6(micro) ==
    str(micro \div 1000000) \o <<".">> \o rjust(str(micro % 1000000), 6, "0")

\* "{:.6f}".format(x): the strings the formatting of the double can give
Format6(x) == {Fixed6(micro) : micro \in Nearest6(x)}

DotPos(s) == CHOOSE i \in 1..Len(s) : s[i] = "."

\* float(s) of a decimal literal with at most 8 decimals, in units of 10^-8
float(s) ==
    LET d == DotPos(s)
        whole == SubSeq(s, 1, d - 1)
        frac == SubSeq(s, d + 1, Len(s))
    IN  int(whole) * 100000000 + int(frac) * Pow10(8 - Len(frac))

(***************************************************************************)
(* Price estimator                                                         *)
(***************************************************************************)
SmallModel == "text-embedding-3-small"

LargeModel == "text-embedding-3-large"

AdaModel == "text-embedding-ada-002"

\* the rates of the table, in units of 10^-5 dollar per 1000 tokens
pricing == (SmallModel :> 2) @@ (LargeModel :> 13) @@ (AdaModel :> 10)

DefaultCost == 1000

cost_per_thousand(model_name) ==
    IF model_name \in DOMAIN pricing THEN pricing[model_name] ELSE DefaultCost

\* the unrounded product, in units of 10^-8 dollar
estimated_price(token_count, model_name) ==
    token_count * cost_per_thousand(model_name)

calculate_estimated_price(token_count, model_name) ==
    {ljust(price_str, 10, "0") :
        price_str \in Format6(estimated_price(token_count, model_name))}

(***************************************************************************)
(* The environment: names a directory listing can hold, folders the dialog *)
(* can return, texts the operator can type, documents a read can yield     *)
(***************************************************************************)
MdExt == <<".", "m", "d">>

CsvExt == <<".", "c", "s", "v">>

Names == {<<"a", ".", "m", "d">>, <<".", "m", "d">>, <<"n", ".", "t", "x", "t">>, <<"m", "d">>}

Folders == {<<"d">>, <<"e">>}

DefaultFileName == <<"o", "u", "t", "p", "u", "t">>

FieldTexts == {<<>>, DefaultFileName, <<"r", ".", "c", "s", "v">>}

IsInjective(f) == \A i, j \in DOMAIN f : f[i] = f[j] => i = j

\* os.listdir: distinct names in an arbitrary order
Listings ==
    UNION {{l \in [1..k -> Names] : IsInjective(l)} : k \in 0..MaxEntries}

\* tokenize_md_file of a decodable document: the tokenizer is an external
\* function of the text; an empty text has no token, any other has some
Documents ==
    {doc \in [char_count : {0, MaxChars}, tokens : {0, 25, MaxTokens}] :
        (doc.char_count = 0) <=> (doc.tokens = 0)}

\* what the destination path can hold before a run
OldReport == <<<<<<"o", "l", "d">>>>>>

HeaderRow ==
    <<<<"F", "i", "l", "e", "n", "a", "m", "e">>,
      <<"C", "h", "a", "r", "a", "c", "t", "e", "r", " ", "C", "o", "u", "n", "t">>,
      <<"T", "o", "k", "e", "n", "s">>,
      <<"t", "e", "x", "t", "-", "e", "m", "b", "e", "d", "d", "i", "n", "g", "-", "3", "-", "s", "m", "a", "l", "l">>,
      <<"t", "e", "x", "t", "-", "e", "m", "b", "e", "d", "d", "i", "n", "g", "-", "3", "-", "l", "a", "r", "g", "e">>,
      <<"t", "e", "x", "t", "-", "e", "m", "b", "e", "d", "d", "i", "n", "g", "-", "a", "d", "a", "-", "0", "0", "2">>>>

(***************************************************************************)
(* State                                                                   *)
(***************************************************************************)
VARIABLES
    fileNameEdit,        \* text of the QLineEdit
    folder_path,         \* attribute self.folder_path: None until first set
    file_name,           \* attribute self.file_name: None until first set
    pc,                  \* position of the single thread
    outcome,             \* how the last Start handler ended
    run_folder_path,     \* argument folder_path of the current or last run
    csv_file_path,       \* argument csv_file_path of the current or last run
    dest_before,         \* the destination path when the run was called
    dest,                \* the destination path now: None or Some(rows)
    csv_open,            \* the run holds the file open
    listing,             \* result of os.listdir
    idx,                 \* position of the for loop in listing
    charTotalCount,
    total_tokens,
    te_smallTotalPrice,
    te_largeTotalPrice,
    ada_002TotalPrice,
    presses,             \* clicks on Start
    runs,                \* calls of process_md_files_in_folder
    token_count,         \* argument of the price estimator under study
    model_name,          \* argument of the price estimator under study
    price_str            \* its result, <<>> before the call

shellVars == <<fileNameEdit, folder_path, file_name>>

totalVars ==
    <<charTotalCount, total_tokens, te_smallTotalPrice, te_largeTotalPrice,
      ada_002TotalPrice>>

argVars == <<run_folder_path, csv_file_path, dest_before>>

fileVars == <<dest, csv_open>>

loopVars == <<listing, idx>>

countVars == <<presses, runs>>

priceVars == <<token_count, model_name, price_str>>

vars ==
    <<shellVars, pc, outcome, argVars, fileVars, loopVars, totalVars,
      countVars, priceVars>>

InitProgram ==
    /\ fileNameEdit = DefaultFileName
    /\ folder_path = None
    /\ file_name = None
    /\ pc = "idle"
    /\ outcome = "none"
    /\ run_folder_path = <<>>
    /\ csv_file_path = <<>>
    /\ dest_before = None
    /\ dest = None
    /\ csv_open = FALSE
    /\ listing = <<>>
    /\ idx = 0
    /\ charTotalCount = 0
    /\ total_tokens = 0
    /\ te_smallTotalPrice = 0
    /\ te_largeTotalPrice = 0
    /\ ada_002TotalPrice = 0
    /\ presses = 0
    /\ runs = 0

Init ==
    /\ InitProgram
    /\ token_count = 0
    /\ model_name = SmallModel
    /\ price_str = <<>>

(***************************************************************************)
(* The shell: FolderSelector                                               *)
(***************************************************************************)
\* the operator types in the QLineEdit
EditFileName ==
    /\ pc = "idle"
    /\ \E text \in FieldTexts \ {fileNameEdit} : fileNameEdit' = text
    /\ UNCHANGED <<folder_path, file_name, pc, outcome, argVars, fileVars,
                   loopVars, totalVars, countVars, priceVars>>

\* file_name as openFolderDialog derives it from the field
WithCsv(text) == IF ~endswith(text, CsvExt) THEN text \o CsvExt ELSE text

\* the dialog returns selected (a folder, or "" when cancelled)
openFolderDialogReturns(selected) ==
    IF selected # <<>>
    THEN /\ folder_path' = Some(selected)
         /\ file_name' = Some(WithCsv(fileNameEdit))
    ELSE UNCHANGED <<folder_path, file_name>>

openFolderDialog ==
    /\ pc = "idle"
    /\ \E selected \in Folders \cup {<<>>} : openFolderDialogReturns(selected)
    /\ UNCHANGED <<fileNameEdit, pc, outcome, argVars, fileVars, loopVars,
                   totalVars, countVars, priceVars>>

\* variant: the attributes start as empty strings and Start calls the
\* callback with them
MutStart_defaults ==
    /\ pc = "idle"
    /\ presses < MaxPresses
    /\ folder_path = None
    /\ presses' = presses + 1
    /\ runs' = runs + 1
    /\ outcome' = "running"
    /\ pc' = "open"
    /\ UNCHANGED <<shellVars, argVars, fileVars, loopVars, totalVars,
                   priceVars>>

\* start, when the attributes were never assigned: reading self.folder_path
\* raises AttributeError before the callback is called
start_AttributeError ==
    /\ pc = "idle"
    /\ presses < MaxPresses
    /\ folder_path = None
    /\ presses' = presses + 1
    /\ outcome' = "AttributeError"
    /\ UNCHANGED <<shellVars, pc, argVars, fileVars, loopVars, totalVars,
                   runs, priceVars>>

\* start, calling start_processing and so process_md_files_in_folder, up to
\* the initialisation of the accumulators
start_call ==
    /\ pc = "idle"
    /\ presses < MaxPresses
    /\ folder_path # None
    /\ presses' = presses + 1
    /\ runs' = runs + 1
    /\ outcome' = "running"
    /\ run_folder_path' = folder_path[1]
    /\ csv_file_path' = file_name[1]
    /\ \E before \in {None, Some(OldReport)} :
          /\ dest_before' = before
          /\ dest' = before
    /\ listing' = <<>>
    /\ idx' = 0
    /\ charTotalCount' = 0
    /\ total_tokens' = 0
    /\ te_smallTotalPrice' = 0
    /\ te_largeTotalPrice' = 0
    /\ ada_002TotalPrice' = 0
    /\ pc' = "open"
    /\ UNCHANGED <<shellVars, csv_open, priceVars>>

start == start_AttributeError \/ start_call

(***************************************************************************)
(* The folder accountant: process_md_files_in_folder                       *)
(***************************************************************************)
\* leaving the with block closes the file
CloseFile == csv_open' = FALSE

\* an exception leaves the with block and propagates out of the handler
Raise(exception) ==
    /\ outcome' = exception
    /\ pc' = "raised"

writerow(row) == dest' = Some(Append(dest[1], row))

OpenOk ==
    /\ pc = "open"
    /\ dest' = Some(<<>>)
    /\ csv_open' = TRUE
    /\ pc' = "header"
    /\ UNCHANGED <<shellVars, outcome, argVars, loopVars, totalVars,
                   countVars, priceVars>>

OpenFail ==
    /\ pc = "open"
    /\ Raise("OSError_open")
    /\ UNCHANGED <<shellVars, argVars, fileVars, loopVars, totalVars,
                   countVars, priceVars>>

WriteHeader ==
    /\ pc = "header"
    /\ writerow(HeaderRow)
    /\ pc' = "listdir"
    /\ UNCHANGED <<shellVars, outcome, argVars, csv_open,
                   loopVars, totalVars, countVars, priceVars>>

ListDirOk ==
    /\ pc = "listdir"
    /\ \E l \in Listings : listing' = l
    /\ idx' = 1
    /\ pc' = "loop"
    /\ UNCHANGED <<shellVars, outcome, argVars, fileVars, totalVars,
                   countVars, priceVars>>

\* variant: the report is removed when the folder cannot be listed
MutListDirFail_cleanup ==
    /\ pc = "listdir"
    /\ CloseFile
    /\ dest' = dest_before
    /\ Raise("OSError_listdir")
    /\ UNCHANGED <<shellVars, argVars, loopVars, totalVars, countVars,
                   priceVars>>

ListDirFail ==
    /\ pc = "listdir"
    /\ CloseFile
    /\ Raise("OSError_listdir")
    /\ UNCHANGED <<shellVars, argVars, dest, loopVars, totalVars, countVars,
                   priceVars>>

InLoop == pc = "loop" /\ idx <= Len(listing)

\* variant: the extension is tested without its dot
MutIsMarkdown_nodot(filename) == endswith(filename, <<"m", "d">>)

\* the filter of the loop
IsMarkdown(filename) == endswith(filename, MdExt)

SkipEntry ==
    /\ InLoop
    /\ ~IsMarkdown(listing[idx])
    /\ idx' = idx + 1
    /\ UNCHANGED <<shellVars, pc, outcome, argVars, fileVars, listing,
                   totalVars, countVars, priceVars>>

\* variant: the totals add the prices before they are rounded
MutProcessDocument_unrounded(filename, doc, small, large, ada) ==
    /\ charTotalCount' = charTotalCount + doc.char_count
    /\ total_tokens' = total_tokens + doc.tokens
    /\ te_smallTotalPrice' =
          te_smallTotalPrice + estimated_price(doc.tokens, SmallModel)
    /\ te_largeTotalPrice' =
          te_largeTotalPrice + estimated_price(doc.tokens, LargeModel)
    /\ ada_002TotalPrice' =
          ada_002TotalPrice + estimated_price(doc.tokens, AdaModel)
    /\ writerow(<<filename, str(doc.char_count), str(doc.tokens),
                  small, large, ada>>)

\* one iteration on a document read as doc, with the three price strings
ProcessDocument(filename, doc, small, large, ada) ==
    /\ charTotalCount' = charTotalCount + doc.char_count
    /\ total_tokens' = total_tokens + doc.tokens
    /\ te_smallTotalPrice' = te_smallTotalPrice + float(small)
    /\ te_largeTotalPrice' = te_largeTotalPrice + float(large)
    /\ ada_002TotalPrice' = ada_002TotalPrice + float(ada)
    /\ writerow(<<filename, str(doc.char_count), str(doc.tokens),
                  small, large, ada>>)

ProcessEntry ==
    /\ InLoop
    /\ IsMarkdown(listing[idx])
    /\ \E doc \in Documents :
       \E small \in calculate_estimated_price(doc.tokens, SmallModel) :
       \E large \in calculate_estimated_price(doc.tokens, LargeModel) :
       \E ada \in calculate_estimated_price(doc.tokens, AdaModel) :
          ProcessDocument(listing[idx], doc, small, large, ada)
    /\ idx' = idx + 1
    /\ UNCHANGED <<shellVars, pc, outcome, argVars, csv_open,
                   listing, countVars, priceVars>>

\* variant: the partial report is removed when a document cannot be read
MutReadFail_cleanup ==
    /\ InLoop
    /\ IsMarkdown(listing[idx])
    /\ CloseFile
    /\ dest' = dest_before
    /\ Raise("UnicodeDecodeError")
    /\ UNCHANGED <<shellVars, argVars, loopVars, totalVars, countVars,
                   priceVars>>

\* variant: the file is closed by hand after the loop only
MutReadFail_leak ==
    /\ InLoop
    /\ IsMarkdown(listing[idx])
    /\ Raise("UnicodeDecodeError")
    /\ UNCHANGED <<shellVars, argVars, fileVars, loopVars, totalVars,
                   countVars, priceVars>>

\* tokenize_md_file raises: the document is not UTF-8 text
ReadFail ==
    /\ InLoop
    /\ IsMarkdown(listing[idx])
    /\ CloseFile
    /\ Raise("UnicodeDecodeError")
    /\ UNCHANGED <<shellVars, argVars, dest, loopVars, totalVars, countVars,
                   priceVars>>

\* variant: the totals are padded like the prices of the document rows
MutTotalsRows_ljust ==
    {<<run_folder_path, str(charTotalCount), str(total_tokens),
       ljust(small, 10, "0"), ljust(large, 10, "0"), ljust(ada, 10, "0")>> :
        small \in Format6(te_smallTotalPrice),
        large \in Format6(te_largeTotalPrice),
        ada \in Format6(ada_002TotalPrice)}

TotalsRows ==
    {<<run_folder_path, str(charTotalCount), str(total_tokens),
       small, large, ada>> :
        small \in Format6(te_smallTotalPrice),
        large \in Format6(te_largeTotalPrice),
        ada \in Format6(ada_002TotalPrice)}

\* variant: the totals row is left out
MutWriteTotals_none ==
    /\ pc = "loop"
    /\ idx > Len(listing)
    /\ pc' = "exit"
    /\ UNCHANGED <<shellVars, outcome, argVars, fileVars, loopVars,
                   totalVars, countVars, priceVars>>

WriteTotals ==
    /\ pc = "loop"
    /\ idx > Len(listing)
    /\ \E row \in TotalsRows : writerow(row)
    /\ pc' = "exit"
    /\ UNCHANGED <<shellVars, outcome, argVars, csv_open,
                   loopVars, totalVars, countVars, priceVars>>

\* the with block ends, process_md_files_in_folder returns and
\* start_processing prints its message
ExitWith ==
    /\ pc = "exit"
    /\ CloseFile
    /\ outcome' = "ok"
    /\ pc' = "returned"
    /\ UNCHANGED <<shellVars, argVars, dest, loopVars, totalVars, countVars,
                   priceVars>>

\* the handler is over, by return or by the exception leaving the slot: the
\* event loop runs again; the locals of the call are gone and the file
\* system is no longer followed
EventLoop ==
    /\ pc \in {"returned", "raised"}
    /\ pc' = "idle"
    /\ run_folder_path' = <<>>
    /\ csv_file_path' = <<>>
    /\ dest_before' = None
    /\ dest' = None
    /\ listing' = <<>>
    /\ idx' = 0
    /\ charTotalCount' = 0
    /\ total_tokens' = 0
    /\ te_smallTotalPrice' = 0
    /\ te_largeTotalPrice' = 0
    /\ ada_002TotalPrice' = 0
    /\ UNCHANGED <<shellVars, outcome, csv_open, countVars, priceVars>>

Next ==
    \/ EditFileName
    \/ openFolderDialog
    \/ start
    \/ OpenOk
    \/ OpenFail
    \/ WriteHeader
    \/ ListDirOk
    \/ ListDirFail
    \/ SkipEntry
    \/ ProcessEntry
    \/ ReadFail
    \/ WriteTotals
    \/ ExitWith
    \/ EventLoop

Spec == Init /\ [][Next]_vars

(***************************************************************************)
(* The price estimator applied to bounded arguments                        *)
(***************************************************************************)
ModelNames == {SmallModel, LargeModel, AdaModel, "gpt-4"}

InitPrice ==
    /\ InitProgram
    /\ token_count \in 0..MaxPriceTokens
    /\ model_name \in ModelNames
    /\ price_str = <<>>

CalcPrice ==
    /\ price_str = <<>>
    /\ price_str' \in calculate_estimated_price(token_count, model_name)
    /\ UNCHANGED <<shellVars, pc, outcome, argVars, fileVars, loopVars,
                   totalVars, countVars, token_count, model_name>>

NextPrice == CalcPrice

SpecPrice == InitPrice /\ [][NextPrice]_vars

(***************************************************************************)
(* Reading the report                                                      *)
(***************************************************************************)
Rows == IF dest = None THEN <<>> ELSE dest[1]

\* the run is past the totals row
TotalsWritten == pc \in {"exit", "returned"}

Completed == pc = "returned"

Aborted(exception) == pc = "raised" /\ outcome = exception

\* the loop of the current run has started
LoopEntered ==
    \/ pc \in {"loop", "exit", "returned"}
    \/ Aborted("UnicodeDecodeError")

\* the rows between the header and the totals row
DocRows ==
    IF TotalsWritten THEN SubSeq(Rows, 2, Len(Rows) - 1)
    ELSE SubSeq(Rows, 2, Len(Rows))

TotalsRow == Rows[Len(Rows)]

EndsInDotMd(name) ==
    /\ Len(name) >= 3
    /\ name[Len(name) - 2] = "."
    /\ name[Len(name) - 1] = "m"
    /\ name[Len(name)] = "d"

\* the entries of the listing the loop is past
Visited == SubSeq(listing, 1, idx - 1)

MdOf(names) == SelectSeq(names, EndsInDotMd)

FileNames(rows) == [i \in 1..Len(rows) |-> rows[i][1]]

RECURSIVE SumInt(_, _)
SumInt(rows, col) ==
    IF rows = <<>> THEN 0
    ELSE int(Head(rows)[col]) + SumInt(Tail(rows), col)

RECURSIVE SumFloat(_, _)
SumFloat(rows, col) ==
    IF rows = <<>> THEN 0
    ELSE float(Head(rows)[col]) + SumFloat(Tail(rows), col)

Zero6 == <<"0", ".", "0", "0", "0", "0", "0", "0">>

Abs(x) == IF x < 0 THEN -x ELSE x

(***************************************************************************)
(* C1                                                                      *)
(***************************************************************************)
AccumulatorsAreSums ==
    /\ charTotalCount = SumInt(DocRows, 2)
    /\ total_tokens = SumInt(DocRows, 3)
    /\ te_smallTotalPrice = SumFloat(DocRows, 4)
    /\ te_largeTotalPrice = SumFloat(DocRows, 5)
    /\ ada_002TotalPrice = SumFloat(DocRows, 6)

TotalsRowIsSum ==
    /\ int(TotalsRow[2]) = SumInt(DocRows, 2)
    /\ int(TotalsRow[3]) = SumInt(DocRows, 3)
    /\ float(TotalsRow[4]) = SumFloat(DocRows, 4)
    /\ float(TotalsRow[5]) = SumFloat(DocRows, 5)
    /\ float(TotalsRow[6]) = SumFloat(DocRows, 6)

\* C1: once the loop is entered the five accumulators equal the sums of the
\* fields of the document rows written so far (prices at the value their row
\* string reads as), and once the totals row is written each of its numeric
\* fields equals the sum of that field over the document rows.
ThmC1 ==
    /\ LoopEntered => AccumulatorsAreSums
    /\ TotalsWritten => TotalsRowIsSum

WitC1 ==
    /\ Completed
    /\ Len(DocRows) = 2
    /\ te_smallTotalPrice > 0
    /\ SumFloat(DocRows, 4) # total_tokens * pricing[SmallModel]

(***************************************************************************)
(* C2                                                                      *)
(***************************************************************************)
ReportInOrder ==
    /\ dest # None
    /\ Len(Rows) = Len(MdOf(listing)) + 2
    /\ Rows[1] = HeaderRow
    /\ FileNames(DocRows) = MdOf(listing)
    /\ TotalsRow[1] = run_folder_path
    /\ csv_open = FALSE

\* C2: a run that completed left the header row, then one row per document
\* in the order of the listing, then the totals row as the last row, in a
\* closed file; and no step after the totals row writes to the file.
ThmC2 ==
    /\ [](Completed => ReportInOrder)
    /\ [][TotalsWritten => dest' = dest \/ pc' = "idle"]_vars

WitC2 ==
    /\ Completed
    /\ Len(listing) = 2
    /\ Len(Rows) = 4
    /\ Rows[2][1] # Rows[3][1]

(***************************************************************************)
(* C3                                                                      *)
(***************************************************************************)
\* a step of the loop over one entry
LoopStep == pc = "loop" /\ idx <= Len(listing) /\ idx' = idx + 1

EntryStepC3 ==
    LoopStep =>
        IF EndsInDotMd(listing[idx])
        THEN /\ Len(dest'[1]) = Len(dest[1]) + 1
             /\ dest'[1][Len(dest'[1])][1] = listing[idx]
             /\ SubSeq(dest'[1], 1, Len(dest[1])) = dest[1]
        ELSE /\ dest' = dest
             /\ totalVars' = totalVars

\* C3: a loop step over an entry not ending in ".md" leaves the file and
\* the accumulators unchanged and a loop step over an entry ending in ".md"
\* appends exactly one row, named after it; so the document rows are the
\* ".md" entries of the visited part of the listing, whatever else it holds.
ThmC3 ==
    /\ [](LoopEntered => FileNames(DocRows) = MdOf(Visited))
    /\ [][EntryStepC3]_vars

WitC3 ==
    /\ Completed
    /\ Len(listing) = 2
    /\ ~EndsInDotMd(listing[1])
    /\ EndsInDotMd(listing[2])
    /\ Len(Rows) = 3
    /\ total_tokens > 0

(***************************************************************************)
(* C4                                                                      *)
(***************************************************************************)
\* the destination holds the header and the rows of the documents processed
\* before the failure
PartialReport ==
    /\ dest # None
    /\ Len(Rows) >= 1
    /\ Rows[1] = HeaderRow
    /\ FileNames(SubSeq(Rows, 2, Len(Rows))) = MdOf(Visited)

AbortedAtDocument ==
    /\ idx <= Len(listing)
    /\ EndsInDotMd(listing[idx])
    /\ Len(Rows) = Len(MdOf(Visited)) + 1
    /\ csv_open = FALSE

\* the only step of an aborted run is the return to the event loop
StaysAborted ==
    Aborted("UnicodeDecodeError") => pc' = "idle" /\ outcome' = outcome

\* C4 as claimed: after an undecodable document the run is aborted with no
\* later document processed, no totals row and no partial report left.
OrigC4 ==
    Aborted("UnicodeDecodeError") => AbortedAtDocument /\ ~PartialReport

\* C4: after an undecodable document the run is aborted at that document:
\* the error propagates, no later entry is processed, no totals row is
\* written, the file is closed, and the destination is left holding the
\* header and the rows of the documents processed before the failure.
ThmC4 ==
    /\ [](Aborted("UnicodeDecodeError") => AbortedAtDocument /\ PartialReport)
    /\ [][StaysAborted]_vars

WitC4 ==
    /\ Aborted("UnicodeDecodeError")
    /\ idx = 2
    /\ Len(Rows) = 2
    /\ Len(listing) = 2

(***************************************************************************)
(* C5                                                                      *)
(***************************************************************************)
\* C5 as claimed: when the folder cannot be listed the destination is
\* neither created nor truncated.
OrigC5 == Aborted("OSError_listdir") => dest = dest_before

\* C5: when the folder cannot be listed the error propagates to the caller
\* after the destination was opened for writing: it is left created or
\* truncated, closed, holding the header row only.
ThmC5 ==
    Aborted("OSError_listdir") =>
        /\ dest = Some(<<HeaderRow>>)
        /\ csv_open = FALSE
        /\ listing = <<>>

WitC5 ==
    /\ Aborted("OSError_listdir")
    /\ dest_before = None
    /\ dest # None

(***************************************************************************)
(* C6                                                                      *)
(***************************************************************************)
\* C6: a completed run on a listing with no entry ending in ".md" wrote
\* exactly the header row and a totals row with 0, 0 and three 0.000000.
ThmC6 ==
    (Completed /\ MdOf(listing) = <<>>) =>
        dest = Some(<<HeaderRow,
                      <<run_folder_path, <<"0">>, <<"0">>,
                        Zero6, Zero6, Zero6>>>>)

WitC6 ==
    /\ Completed
    /\ Len(listing) = 2
    /\ MdOf(listing) = <<>>
    /\ dest_before # None

(***************************************************************************)
(* C7                                                                      *)
(***************************************************************************)
\* the rates of the claim, in units of 10^-5 dollar per 1000 tokens
ClaimedRate(m) ==
    CASE m = "text-embedding-3-small" -> 2
      [] m = "text-embedding-3-large" -> 13
      [] m = "text-embedding-ada-002" -> 10
      [] OTHER -> 1000

HoldsFile == pc \in {"header", "listdir", "loop", "exit"}

\* C8: the output file is open exactly while a run is between its open and
\* the end of its with block: it is closed when the run has returned, when
\* it has raised (from open, listdir or a read) and while no run is going.
ThmC8 ==
    /\ csv_open <=> HoldsFile
    /\ pc \in {"returned", "raised", "idle"} => csv_open = FALSE

WitC8 ==
    /\ Aborted("UnicodeDecodeError")
    /\ Len(Rows) = 2
    /\ csv_open = FALSE

(***************************************************************************)
(* C9                                                                      *)
(***************************************************************************)
\* C9: the callback runs only with a folder path and a non-empty filename,
\* and no press of Start fails for want of them.
OrigC9 ==
    /\ runs > 0 => run_folder_path \in Folders /\ csv_file_path # <<>>
    /\ outcome # "AttributeError"

PressStep ==
    presses' # presses =>
        /\ presses' = presses + 1
        /\ IF folder_path = None
           THEN runs' = runs /\ pc' = "idle"
           ELSE runs' = runs + 1 /\ pc' = "open"

=============================================================================
